---- MODULE Spec2Model ----
(***************************************************************************)
(* Model of the report segmenter of the stock-me dashboard:                *)
(* Dashboard.parseFullReport and the analysisData expression that calls    *)
(* it.  A JavaScript string is modelled as a sequence of one-character     *)
(* strings, and every string operation the code uses (split, trim,         *)
(* replace, toLowerCase, includes, indexOf, slice, join) is an operator    *)
(* that computes what the JavaScript operation computes.                   *)
(***************************************************************************)
EXTENDS Integers, Sequences, FiniteSets, TLC

\* Bound of the model: a report is made of at most MaxBlocks blocks of text.
MaxBlocks == 3

(***************************************************************************)
(* JavaScript string operations.                                           *)
(***************************************************************************)
NL == "\n"

EmptyStr == << >>

\* White space that String.prototype.trim removes (the characters the reports use).
IsSpace(c) == c \in {" ", NL, "\t"}

RECURSIVE TrimStart(_)
TrimStart(s) ==
  IF s # EmptyStr /\ IsSpace(Head(s)) THEN TrimStart(Tail(s)) ELSE s

RECURSIVE TrimEnd(_)
TrimEnd(s) ==
  IF s # EmptyStr /\ IsSpace(s[Len(s)]) THEN TrimEnd(SubSeq(s, 1, Len(s) - 1)) ELSE s

Trim(s) == TrimEnd(TrimStart(s))

UpperCase == <<"A", "B", "C", "D", "E", "F", "G", "H", "I", "J", "K", "L", "M", "N", "O", "P", "Q", "R", "S", "T", "U", "V", "W", "X", "Y", "Z">>

LowerCase == <<"a", "b", "c", "d", "e", "f", "g", "h", "i", "j", "k", "l", "m", "n", "o", "p", "q", "r", "s", "t", "u", "v", "w", "x", "y", "z">>

LowerChar(c) ==
  IF \E i \in 1..Len(UpperCase) : UpperCase[i] = c
  THEN LowerCase[CHOOSE i \in 1..Len(UpperCase) : UpperCase[i] = c]
  ELSE c

ToLowerCase(s) == [i \in 1..Len(s) |-> LowerChar(s[i])]

\* s.startsWith(k) at the 0-based position p
MatchAt(s, k, p) ==
  /\ p + Len(k) <= Len(s)
  /\ \A j \in 1..Len(k) : s[p + j] = k[j]

StartsWith(s, k) == MatchAt(s, k, 0)

\* s.indexOf(k, from): the 0-based position of the first occurrence at or after from, or -1
IndexOf(s, k, from) ==
  LET hits == {p \in from..(Len(s) - Len(k)) : MatchAt(s, k, p)}
  IN IF hits = {} THEN -1 ELSE CHOOSE p \in hits : \A q \in hits : p <= q

Includes(s, k) == IndexOf(s, k, 0) # -1

\* s.slice(a, b) for 0 <= a and 0 <= b
Slice(s, a, b) == SubSeq(s, a + 1, b)

\* s.split(sep) for a non-empty separator: always at least one part
RECURSIVE Split(_, _)
Split(s, sep) ==
  LET p == IndexOf(s, sep, 0)
  IN IF p = -1 THEN <<s>>
     ELSE <<Slice(s, 0, p)>> \o Split(Slice(s, p + Len(sep), Len(s)), sep)

\* parts.join(sep)
RECURSIVE Join(_, _)
Join(parts, sep) ==
  IF parts = << >> THEN EmptyStr
  ELSE IF Len(parts) = 1 THEN parts[1]
  ELSE parts[1] \o sep \o Join(Tail(parts), sep)

Bold == <<"*", "*">>

BulletMarker == <<"*", " ">>

StripBoldMutant(s) ==
  LET p == IndexOf(s, Bold, 0)
  IN IF p = -1 THEN s ELSE Slice(s, 0, p) \o Slice(s, p + Len(Bold), Len(s))

\* line.replace(/\*\*/g, ''): every non-overlapping `**`, leftmost first
RECURSIVE StripBold(_)
StripBold(s) ==
  IF Len(s) < Len(Bold) THEN s
  ELSE IF StartsWith(s, Bold) THEN StripBold(Slice(s, Len(Bold), Len(s)))
  ELSE <<Head(s)>> \o StripBold(Tail(s))

\* s.replace(k, ''): the first occurrence only
ReplaceFirst(s, k) ==
  LET p == IndexOf(s, k, 0)
  IN IF p = -1 THEN s ELSE Slice(s, 0, p) \o Slice(s, p + Len(k), Len(s))

(***************************************************************************)
(* The section buckets of parseFullReport.                                 *)
(***************************************************************************)
SectionOrderMutant == <<"technical", "fundamental", "risks", "sentiment", "opportunities">>

\* Object.values order: the insertion order of the object literal
SectionOrder == <<"technical", "fundamental", "sentiment", "risks", "opportunities">>

Categories == {"technical", "fundamental", "sentiment", "risks", "opportunities"}

NoSection == "null"

InitialSectionMutant == "technical"

\* let currentSection = null
InitialSection == NoSection

TitleOfMutant(c) ==
  CASE c = "technical" -> "Technical Analysis"
    [] c = "fundamental" -> "Fundamental Analysis"
    [] c = "sentiment" -> "Sentiment Analysis"
    [] c = "risks" -> "Risks"
    [] c = "opportunities" -> "Risks"

TitleOf(c) ==
  CASE c = "technical" -> "Technical Analysis"
    [] c = "fundamental" -> "Fundamental Analysis"
    [] c = "sentiment" -> "Sentiment Analysis"
    [] c = "risks" -> "Risks"
    [] c = "opportunities" -> "Opportunities"

FreshSections == [c \in Categories |-> [content |-> << >>, type |-> c, title |-> TitleOf(c)]]

PushMutant(secs, c, text) ==
  IF \E i \in 1..Len(secs[c].content) : secs[c].content[i] = text
  THEN secs
  ELSE [secs EXCEPT ![c].content = Append(@, text)]

\* sections[c].content.push(text)
Push(secs, c, text) == [secs EXCEPT ![c].content = Append(@, text)]

PushIfMutant(secs, c, text) == Push(secs, c, text)

\* if (text) sections[c].content.push(text)
PushIf(secs, c, text) == IF text # EmptyStr THEN Push(secs, c, text) ELSE secs

KwTechnical == <<"t", "e", "c", "h", "n", "i", "c", "a", "l", " ", "a", "n", "a", "l", "y", "s", "i", "s">>

KwFundamental == <<"f", "u", "n", "d", "a", "m", "e", "n", "t", "a", "l", " ", "a", "n", "a", "l", "y", "s", "i", "s">>

KwNews == <<"n", "e", "w", "s", " ", "s", "e", "n", "t", "i", "m", "e", "n", "t">>

KwSocial == <<"s", "o", "c", "i", "a", "l", " ", "m", "e", "d", "i", "a", " ", "a", "n", "a", "l", "y", "s", "i", "s">>

KwRisksOpps == <<"r", "i", "s", "k", "s", "/", "o", "p", "p", "o", "r", "t", "u", "n", "i", "t", "i", "e", "s">>

ActionableSummary == <<"A", "c", "t", "i", "o", "n", "a", "b", "l", "e", " ", "S", "u", "m", "m", "a", "r", "y">>

RisksMarker == <<"R", "i", "s", "k", "s", ":">>

OppsMarker == <<"O", "p", "p", "o", "r", "t", "u", "n", "i", "t", "i", "e", "s", ":">>

RisksOffset == 6

OppsOffsetMutant == RisksOffset

OppsOffset == 14

\* the loop variable after `line = line.replace(/\*\*/g, '').trim()`
CleanLine(raw) == Trim(StripBold(raw))

BulletContentMutant(line) == Trim(line)

\* line.replace('* ', '').trim()
BulletContent(line) == Trim(ReplaceFirst(line, BulletMarker))

RiskTokensMutant(part) ==
  LET toks == Split(part, <<",">>)
  IN [risks |-> toks[1],
      opportunities |-> IF Len(toks) > 1 THEN toks[2] ELSE EmptyStr]

\* parts[1].split(',').map(s => s.trim()), destructured into [risks, opportunities];
\* a missing second token is undefined, which is falsy like the empty string
RiskTokens(part) ==
  LET toks == Split(part, <<",">>)
  IN [risks |-> Trim(toks[1]),
      opportunities |-> IF Len(toks) > 1 THEN Trim(toks[2]) ELSE EmptyStr]

HeaderRuleMutant(low) ==
  IF Includes(low, KwFundamental) THEN "fundamental"
  ELSE IF Includes(low, KwTechnical) THEN "technical"
  ELSE IF Includes(low, KwNews) \/ Includes(low, KwSocial) THEN "sentiment"
  ELSE NoSection

HeaderRuleSkipsBullets(low) ==
  IF StartsWith(low, BulletMarker) THEN NoSection
  ELSE IF Includes(low, KwTechnical) THEN "technical"
  ELSE IF Includes(low, KwFundamental) THEN "fundamental"
  ELSE IF Includes(low, KwNews) \/ Includes(low, KwSocial) THEN "sentiment"
  ELSE NoSection

\* the three header tests of the if / else-if chain, on line.toLowerCase():
\* the category the cursor is set to, or NoSection when none of them matches
HeaderRule(low) ==
  IF Includes(low, KwTechnical) THEN "technical"
  ELSE IF Includes(low, KwFundamental) THEN "fundamental"
  ELSE IF Includes(low, KwNews) \/ Includes(low, KwSocial) THEN "sentiment"
  ELSE NoSection

SplitGuardMutant(parts) == Len(parts) > 0

\* if (parts.length > 1)
SplitGuard(parts) == Len(parts) > 1

RisksOppsRuleMutant(st, line) ==
  LET parts == Split(line, <<":">>)
  IN IF SplitGuard(parts)
     THEN LET t == RiskTokens(parts[2])
          IN [cur |-> "risks",
              secs |-> PushIf(PushIf(st.secs, "risks", t.risks), "opportunities", t.opportunities)]
     ELSE [st EXCEPT !.cur = "risks"]

\* the body of the `risks/opportunities` branch; parts[2] is the JavaScript parts[1]
RisksOppsRule(st, line) ==
  LET parts == Split(line, <<":">>)
  IN IF SplitGuard(parts)
     THEN LET t == RiskTokens(parts[2])
          IN [st EXCEPT !.secs = PushIf(PushIf(@, "risks", t.risks),
                                        "opportunities", t.opportunities)]
     ELSE st

\* line.startsWith('* ') && currentSection
BulletGuard(line, cur) == StartsWith(line, BulletMarker) /\ cur # NoSection

\* The iteration reads a property of undefined and throws a TypeError:
\* parts[1].split when the split on ':' gave one part, or
\* sections[currentSection].content when the cursor is null.
LineThrows(cur, raw) ==
  LET line == CleanLine(raw)
      low == ToLowerCase(line)
  IN IF line = EmptyStr THEN FALSE
     ELSE IF HeaderRule(low) # NoSection THEN FALSE
     ELSE IF Includes(low, KwRisksOpps)
       THEN LET parts == Split(line, <<":">>) IN SplitGuard(parts) /\ Len(parts) < 2
     ELSE BulletGuard(line, cur) /\ cur = NoSection

\* One iteration of the for loop over the lines: st = [cur, secs]
ScanLine(st, raw) ==
  LET line == CleanLine(raw)
      low == ToLowerCase(line)
  IN IF line = EmptyStr THEN st
     ELSE IF HeaderRule(low) # NoSection THEN [st EXCEPT !.cur = HeaderRule(low)]
     ELSE IF Includes(low, KwRisksOpps) THEN RisksOppsRule(st, line)
     ELSE IF BulletGuard(line, st.cur)
       THEN [st EXCEPT !.secs = PushIf(@, st.cur, BulletContent(line))]
     ELSE st

SummaryLineKeptMutant(l) == Trim(l) # EmptyStr

\* the filter callback of the summary: line.trim() && !line.includes('Actionable Summary')
SummaryLineKept(l) == Trim(l) # EmptyStr /\ ~Includes(l, ActionableSummary)

TrimAll(ls) == [i \in 1..Len(ls) |-> Trim(ls[i])]

ExtractSummaryFirst(secs, rep) ==
  IF Includes(rep, ActionableSummary)
  THEN LET summaryStart == IndexOf(rep, ActionableSummary, 0)
           summaryEnd == IndexOf(rep, <<NL, NL>>, summaryStart)
       IN IF summaryStart # -1 /\ summaryEnd # -1
          THEN LET summary == Join(TrimAll(SelectSeq(Split(Slice(rep, summaryStart, summaryEnd), <<NL>>),
                                                     SummaryLineKept)), <<" ">>)
               IN IF summary # EmptyStr
                  THEN [secs EXCEPT !["sentiment"].content = <<summary>> \o @]
                  ELSE secs
          ELSE secs
  ELSE secs

\* the `if (report.includes('Actionable Summary'))` block
ExtractSummary(secs, rep) ==
  IF Includes(rep, ActionableSummary)
  THEN LET summaryStart == IndexOf(rep, ActionableSummary, 0)
           summaryEnd == IndexOf(rep, <<NL, NL>>, summaryStart)
       IN IF summaryStart # -1 /\ summaryEnd # -1
          THEN LET summary == Join(TrimAll(SelectSeq(Split(Slice(rep, summaryStart, summaryEnd), <<NL>>),
                                                     SummaryLineKept)), <<" ">>)
               IN PushIf(secs, "sentiment", summary)
          ELSE secs
  ELSE secs

ExtractMarkedToEnd(secs, rep, marker, offset, c) ==
  IF Includes(rep, marker)
  THEN LET start == IndexOf(rep, marker, 0)
           nl == IndexOf(rep, <<NL>>, start)
           end == IF nl = -1 THEN Len(rep) ELSE nl
       IN PushIf(secs, c, Trim(Slice(rep, start + offset, end)))
  ELSE secs

ExtractMarkedNoDup(secs, rep, marker, offset, c) ==
  IF Includes(rep, marker)
  THEN LET start == IndexOf(rep, marker, 0)
           end == IndexOf(rep, <<NL>>, start)
           text == Trim(Slice(rep, start + offset, end))
       IN IF start # -1 /\ end # -1 /\ (\A i \in 1..Len(secs[c].content) : secs[c].content[i] # text)
          THEN PushIf(secs, c, text)
          ELSE secs
  ELSE secs

ExtractMarkedAtLineStart(secs, rep, marker, offset, c) ==
  IF Includes(rep, marker)
  THEN LET inner == IndexOf(rep, <<NL>> \o marker, 0)
           start == IF StartsWith(rep, marker) THEN 0 ELSE IF inner = -1 THEN -1 ELSE inner + 1
           end == IndexOf(rep, <<NL>>, start)
       IN IF start # -1 /\ end # -1
          THEN PushIf(secs, c, Trim(Slice(rep, start + offset, end)))
          ELSE secs
  ELSE secs

\* the `if (report.includes(marker))` blocks for 'Risks:' and 'Opportunities:'
ExtractMarked(secs, rep, marker, offset, c) ==
  IF Includes(rep, marker)
  THEN LET start == IndexOf(rep, marker, 0)
           end == IndexOf(rep, <<NL>>, start)
       IN IF start # -1 /\ end # -1
          THEN PushIf(secs, c, Trim(Slice(rep, start + offset, end)))
          ELSE secs
  ELSE secs

HasContent(section) == Len(section.content) > 0

AssembleMutant(secs) == [i \in 1..Len(SectionOrder) |-> secs[SectionOrder[i]]]

\* Object.values(sections).filter(section => section.content.length > 0)
Assemble(secs) == SelectSeq([i \in 1..Len(SectionOrder) |-> secs[SectionOrder[i]]], HasContent)

\* the whole for loop, from the cursor and buckets st
RECURSIVE ScanLines(_, _)
ScanLines(st, ls) ==
  IF ls = << >> THEN st ELSE ScanLines(ScanLine(st, Head(ls)), Tail(ls))

\* parseFullReport as a function of its argument
Segment(rep) ==
  IF rep = EmptyStr THEN << >>
  ELSE LET scanned == ScanLines([cur |-> InitialSection, secs |-> FreshSections], Split(rep, <<NL>>))
           s1 == ExtractSummary(scanned.secs, rep)
           s2 == ExtractMarked(s1, rep, RisksMarker, RisksOffset, "risks")
           s3 == ExtractMarked(s2, rep, OppsMarker, OppsOffset, "opportunities")
       IN Assemble(s3)

\* the condition of `stockData?.full_report ? ... : []`
TruthyMutant(has, rep) == has

Truthy(has, rep) == has /\ rep # EmptyStr

(***************************************************************************)
(* The reports the model runs on: up to MaxBlocks blocks of text joined    *)
(* by newlines.                                                            *)
(***************************************************************************)
Blocks ==
  { EmptyStr,
    <<"T", "e", "c", "h", "n", "i", "c", "a", "l", " ", "A", "n", "a", "l", "y", "s", "i", "s">>,
    <<"*", "*", "N", "e", "w", "s", "*", "*", " ", "*", "*", "S", "e", "n", "t", "i", "m", "e", "n", "t", "*", "*">>,
    <<"*", " ", "u", "p">>,
    <<"*", " ", "*", "*", "u", "p", "*", "*">>,
    <<"*", " ", "f", "u", "n", "d", "a", "m", "e", "n", "t", "a", "l", " ", "a", "n", "a", "l", "y", "s", "i", "s">>,
    <<"R", "i", "s", "k", "s", "/", "O", "p", "p", "o", "r", "t", "u", "n", "i", "t", "i", "e", "s", ":", " ", "a", ",", " ", "b">>,
    <<"R", "i", "s", "k", "s", "/", "O", "p", "p", "o", "r", "t", "u", "n", "i", "t", "i", "e", "s", ":", " ", "s", "o", "c", "i", "a", "l", " ", "m", "e", "d", "i", "a", " ", "a", "n", "a", "l", "y", "s", "i", "s", ",", " ", "b">>,
    <<"R", "i", "s", "k", "s", ":", " ", "a">>,
    <<"*", "*", "O", "p", "p", "o", "r", "t", "u", "n", "i", "t", "i", "e", "s", ":", "*", "*", " ", "b">>,
    <<"A", "c", "t", "i", "o", "n", "a", "b", "l", "e", " ", "S", "u", "m", "m", "a", "r", "y", "\n">>,
    <<"A", "c", "t", "i", "o", "n", "a", "b", "l", "e", " ", "S", "u", "m", "m", "a", "r", "y", "\n", "b", "u", "y", "\n">>,
    <<"h", "o", "l", "d">> }

BlockSeqs == UNION {[1..n -> Blocks] : n \in 0..MaxBlocks}

Reports == {Join(bs, <<NL>>) : bs \in BlockSeqs}

(***************************************************************************)
(* State.                                                                  *)
(***************************************************************************)
VARIABLES
  hasReport,       \* stockData?.full_report is a string (not undefined)
  report,          \* the string, when there is one
  pc,              \* position of the control
  called,          \* parseFullReport has been entered
  lines,           \* report.split('\n')
  idx,             \* number of lines the for loop has taken
  currentSection,  \* the cursor
  sections,        \* the buckets
  cursorAt,        \* history: the cursor at the start of each iteration
  pushes,          \* history: the number of entries appended to each bucket
  appendedAt,      \* history: the entries each iteration appended
  extracted,       \* history: the entries each full-text extraction appended
  returned,        \* history: the (report, result) pairs of the calls that returned
  ncalls,          \* number of calls made
  result,          \* the value returned / analysisData
  pathname,        \* App: window.location.pathname
  search,          \* App: window.location.search
  currentPage,     \* App: the page state
  effectPending,   \* AuthCallback is mounted and its effect has not run yet
  runs,            \* history: the runs of authenticateToken, oldest first
  starting,        \* Login: calls of oauth.google.start that have not settled
  revoking,        \* Dashboard: calls of session.revoke that have not settled
  oauthStarted,    \* history: oauth.google.start has been called
  ticker,          \* StockAnalysis: the ticker state
  formReport,      \* StockAnalysis: the report state
  loading,         \* StockAnalysis: the loading state
  error,           \* StockAnalysis: the error state
  calls            \* history: the calls of generateReport, oldest first

parseVars == <<hasReport, report, pc, called, lines, idx, currentSection, sections, cursorAt,
               pushes, appendedAt, extracted, returned, ncalls, result>>

appVars == <<pathname, search, currentPage, effectPending, runs, starting, revoking, oauthStarted>>

formVars == <<ticker, formReport, loading, error, calls>>

\* the state of the pages, which parseFullReport does not touch
uiVars == <<appVars, formVars>>

vars == <<parseVars, appVars, formVars>>

\* the history of appends: the growth of each bucket is added to its count
Counted(p, old, new) ==
  [c \in Categories |-> p[c] + Len(new[c].content) - Len(old[c].content)]

\* the history of appends: the entries that bucket c gained, oldest first
NewEntries(old, new, c) ==
  [j \in 1..(Len(new[c].content) - Len(old[c].content)) |->
     [cat |-> c, text |-> new[c].content[Len(old[c].content) + j]]]

Appended(old, new) ==
  NewEntries(old, new, "technical") \o NewEntries(old, new, "fundamental")
    \o NewEntries(old, new, "sentiment") \o NewEntries(old, new, "risks")
    \o NewEntries(old, new, "opportunities")

NoExtraction == [summary |-> << >>, risks |-> << >>, opportunities |-> << >>]

(***************************************************************************)
(* The pages: App (login, authenticate, dashboard) with AuthCallback, Login *)
(* and the Dashboard's logout, and the StockAnalysis form.                  *)
(***************************************************************************)
MaxRuns == 3

MaxPending == 2

MaxRequests == 3

\* JavaScript's null and undefined
Null == "null"

Undefined == "undefined"

Paths == {"/", "/authenticate"}

SearchValues == {"", "?state=x", "?token=", "?token=abc"}

\* new URLSearchParams(window.location.search).get("token")
GetToken(s) ==
  CASE s = "?token=" -> ""
    [] s = "?token=abc" -> "abc"
    [] OTHER -> Null

\* !token
TokenMissing(token) == token = Null \/ token = ""

\* the initialiser of useState: the page of the path the App is loaded on
InitialPage(path) == IF path = "/authenticate" THEN "authenticate" ELSE "login"

\* renderPage: the component of a page
Rendered(page) ==
  CASE page = "login" -> "Login"
    [] page = "dashboard" -> "Dashboard"
    [] page = "authenticate" -> "AuthCallback"
    [] OTHER -> "Login"

\* the callbacks the App hands to its pages: the page each one sets (onLogin
\* is handed to Login, which has no call of it)
OnLoginPage == "dashboard"

OnLogoutPage == "login"

OnSuccessPage == "dashboard"

OnErrorPageMutant == "dashboard"

OnErrorPage == "login"

\* the App constructed on a URL
AppInit(paths, searches) ==
  /\ pathname \in paths
  /\ search \in searches
  /\ currentPage = InitialPage(pathname)
  /\ effectPending = (Rendered(currentPage) = "AuthCallback")
  /\ runs = << >>
  /\ starting = 0
  /\ revoking = 0
  /\ oauthStarted = FALSE

UpperChar(c) ==
  IF \E i \in 1..Len(LowerCase) : LowerCase[i] = c
  THEN UpperCase[CHOOSE i \in 1..Len(LowerCase) : LowerCase[i] = c]
  ELSE c

ToUpperCase(s) == [i \in 1..Len(s) |-> UpperChar(s[i])]

\* what the user types into the ticker input
TypedValues == {EmptyStr, <<"a", "a", "p", "l">>, <<"A", "A", "P", "L">>, <<"M", "s", "f", "t">>}

\* response.data of a request that succeeded
Responses == {"report A", "report B"}

\* err.response?.data?.detail of a request that failed
Details == {Undefined, "", "Ticker not found"}

\* err.response?.data?.detail || 'An error occurred'
ErrorText(detail) ==
  IF detail # Undefined /\ detail # "" THEN detail ELSE "An error occurred"

\* the Generate Report button: disabled={!ticker || loading}
Disabled == ticker = EmptyStr \/ loading

\* the useState initialisers of StockAnalysis
FormInit ==
  /\ ticker = EmptyStr
  /\ formReport = Null
  /\ loading = FALSE
  /\ error = Null
  /\ calls = << >>

\* the Dashboard before it evaluates analysisData
ParseInit(reps) ==
  /\ hasReport \in BOOLEAN
  /\ report \in (IF hasReport THEN reps ELSE {EmptyStr})
  /\ pc = "idle"
  /\ called = FALSE
  /\ lines = << >>
  /\ idx = 0
  /\ currentSection = NoSection
  /\ sections = FreshSections
  /\ cursorAt = << >>
  /\ pushes = [c \in Categories |-> 0]
  /\ appendedAt = << >>
  /\ extracted = NoExtraction
  /\ returned = << >>
  /\ ncalls = 0
  /\ result = << >>

InitWith(reps) == ParseInit(reps) /\ AppInit({"/"}, {""}) /\ FormInit

Init == InitWith(Reports)

\* Dashboard: const analysisData = stockData?.full_report ? parseFullReport(...) : []
AnalysisData ==
  /\ pc = "idle"
  /\ IF Truthy(hasReport, report)
     THEN /\ pc' = "render"
          /\ UNCHANGED result
     ELSE /\ pc' = "done"
          /\ result' = << >>
  /\ UNCHANGED <<hasReport, report, called, lines, idx, currentSection, sections, cursorAt, pushes,
                 appendedAt, extracted, returned, ncalls>>
  /\ UNCHANGED uiVars

\* the call made by the Dashboard from the true branch
CallFromDashboard ==
  /\ pc = "render"
  /\ pc' = "entry"
  /\ called' = TRUE
  /\ ncalls' = ncalls + 1
  /\ UNCHANGED <<hasReport, report, lines, idx, currentSection, sections, cursorAt, pushes,
                 appendedAt, extracted, returned, result>>
  /\ UNCHANGED uiVars

\* parseFullReport applied to an arbitrary string
DirectCall ==
  /\ pc = "idle"
  /\ hasReport
  /\ pc' = "entry"
  /\ called' = TRUE
  /\ ncalls' = ncalls + 1
  /\ UNCHANGED <<hasReport, report, lines, idx, currentSection, sections, cursorAt, pushes,
                 appendedAt, extracted, returned, result>>
  /\ UNCHANGED uiVars

EnterMutant ==
  /\ pc = "entry"
  /\ idx' = 0
  /\ IF report = EmptyStr
     THEN /\ result' = << >>
          /\ returned' = Append(returned, [report |-> report, result |-> << >>])
          /\ pc' = "done"
          /\ UNCHANGED lines
     ELSE /\ lines' = Split(report, <<NL>>)
          /\ pc' = "scan"
          /\ UNCHANGED <<result, returned>>
  /\ UNCHANGED <<hasReport, report, called, sections, currentSection, cursorAt, pushes,
                 appendedAt, extracted, ncalls>>
  /\ UNCHANGED uiVars

\* the buckets, the empty check, the split, the cursor and the start of the loop
Enter ==
  /\ pc = "entry"
  /\ sections' = FreshSections
  /\ idx' = 0
  /\ IF report = EmptyStr
     THEN /\ result' = << >>
          /\ returned' = Append(returned, [report |-> report, result |-> << >>])
          /\ pc' = "done"
          /\ UNCHANGED <<lines, currentSection>>
     ELSE /\ lines' = Split(report, <<NL>>)
          /\ currentSection' = InitialSection
          /\ pc' = "scan"
          /\ UNCHANGED <<result, returned>>
  /\ UNCHANGED <<hasReport, report, called, cursorAt, pushes, appendedAt, extracted, ncalls>>
  /\ UNCHANGED uiVars

\* one iteration of `for (let line of lines)`; an iteration that throws ends the call
ScanStep ==
  /\ pc = "scan"
  /\ idx < Len(lines)
  /\ IF LineThrows(currentSection, lines[idx + 1])
     THEN /\ pc' = "error"
          /\ UNCHANGED <<currentSection, sections, cursorAt, pushes, appendedAt, idx>>
     ELSE /\ LET st == ScanLine([cur |-> currentSection, secs |-> sections], lines[idx + 1])
             IN /\ currentSection' = st.cur
                /\ sections' = st.secs
          /\ cursorAt' = Append(cursorAt, currentSection)
          /\ pushes' = Counted(pushes, sections, sections')
          /\ appendedAt' = Append(appendedAt, Appended(sections, sections'))
          /\ idx' = idx + 1
          /\ UNCHANGED pc
  /\ UNCHANGED <<hasReport, report, called, lines, extracted, returned, ncalls, result>>
  /\ UNCHANGED uiVars

\* after the loop: the Actionable Summary block
SummaryStep ==
  /\ pc = "scan"
  /\ idx = Len(lines)
  /\ sections' = ExtractSummary(sections, report)
  /\ pc' = "risks"
  /\ pushes' = Counted(pushes, sections, sections')
  /\ extracted' = [extracted EXCEPT !.summary = Appended(sections, sections')]
  /\ UNCHANGED <<hasReport, report, called, lines, idx, currentSection, cursorAt, appendedAt,
                 returned, ncalls, result>>
  /\ UNCHANGED uiVars

RisksStep ==
  /\ pc = "risks"
  /\ sections' = ExtractMarked(sections, report, RisksMarker, RisksOffset, "risks")
  /\ pc' = "opps"
  /\ pushes' = Counted(pushes, sections, sections')
  /\ extracted' = [extracted EXCEPT !.risks = Appended(sections, sections')]
  /\ UNCHANGED <<hasReport, report, called, lines, idx, currentSection, cursorAt, appendedAt,
                 returned, ncalls, result>>
  /\ UNCHANGED uiVars

OppsStep ==
  /\ pc = "opps"
  /\ sections' = ExtractMarked(sections, report, OppsMarker, OppsOffset, "opportunities")
  /\ pc' = "return"
  /\ pushes' = Counted(pushes, sections, sections')
  /\ extracted' = [extracted EXCEPT !.opportunities = Appended(sections, sections')]
  /\ UNCHANGED <<hasReport, report, called, lines, idx, currentSection, cursorAt, appendedAt,
                 returned, ncalls, result>>
  /\ UNCHANGED uiVars

Return ==
  /\ pc = "return"
  /\ result' = Assemble(sections)
  /\ returned' = Append(returned, [report |-> report, result |-> result'])
  /\ pc' = "done"
  /\ UNCHANGED <<hasReport, report, called, lines, idx, currentSection, sections, cursorAt, pushes,
                 appendedAt, extracted, ncalls>>
  /\ UNCHANGED uiVars

Next ==
  \/ AnalysisData
  \/ CallFromDashboard
  \/ DirectCall
  \/ Enter
  \/ ScanStep
  \/ SummaryStep
  \/ RisksStep
  \/ OppsStep
  \/ Return

Spec == Init /\ [][Next]_vars

(***************************************************************************)
(* Malformed and ambiguous reports: risks/opportunities lines without      *)
(* colon or comma or with a second colon, lines made only of markers,      *)
(* lines that match several rules, repeated `Risks:` markers.              *)
(***************************************************************************)
MaxEdgeBlocks == 3

EdgeBlocks ==
  { <<"R", "i", "s", "k", "s", "/", "O", "p", "p", "o", "r", "t", "u", "n", "i", "t", "i", "e", "s">>,
    <<"R", "i", "s", "k", "s", "/", "O", "p", "p", "o", "r", "t", "u", "n", "i", "t", "i", "e", "s", ":", " ", "a">>,
    <<"R", "i", "s", "k", "s", "/", "O", "p", "p", "o", "r", "t", "u", "n", "i", "t", "i", "e", "s", ":", " ", "a", ":", " ", "b", ",", " ", "c">>,
    <<"R", "i", "s", "k", "s", "/", "O", "p", "p", "o", "r", "t", "u", "n", "i", "t", "i", "e", "s", ":", " ", "a", ",", " ", "b">>,
    <<"*", "*">>,
    <<"*", " ", "*", "*">>,
    <<"*", " ", "u", "p">>,
    <<"f", "u", "n", "d", "a", "m", "e", "n", "t", "a", "l", " ", "a", "n", "a", "l", "y", "s", "i", "s", ",", " ", "T", "E", "C", "H", "N", "I", "C", "A", "L", " ", "A", "N", "A", "L", "Y", "S", "I", "S">>,
    <<"*", " ", "N", "e", "w", "s", " ", "S", "e", "n", "t", "i", "m", "e", "n", "t", " ", "r", "i", "s", "k", "s", "/", "o", "p", "p", "o", "r", "t", "u", "n", "i", "t", "i", "e", "s", ":", " ", "a", ",", " ", "b">>,
    <<"R", "i", "s", "k", "s", ":">>,
    <<"R", "i", "s", "k", "s", ":", " ", "a", "\n">> }

EdgeBlockSeqs == UNION {[1..n -> EdgeBlocks] : n \in 0..MaxEdgeBlocks}

EdgeReports == {Join(bs, <<NL>>) : bs \in EdgeBlockSeqs}

InitEdge == InitWith(EdgeReports)

SpecEdge == InitEdge /\ [][Next]_vars

(***************************************************************************)
(* Reports whose markers of the full-text extractions meet the lines of    *)
(* the scan: inline risks/opportunities lines, repeated `Risks:` lines, a  *)
(* summary block next to the bullets of the sentiment category.            *)
(***************************************************************************)
MaxMarkerBlocks == 3

MarkerBlocks ==
  { EmptyStr,
    <<"R", "i", "s", "k", "s", "/", "O", "p", "p", "o", "r", "t", "u", "n", "i", "t", "i", "e", "s", ":", " ", "a", ",", " ", "b">>,
    <<"R", "i", "s", "k", "s", "/", "O", "p", "p", "o", "r", "t", "u", "n", "i", "t", "i", "e", "s", ":", " ", "s", "o", "c", "i", "a", "l", " ", "m", "e", "d", "i", "a", " ", "a", "n", "a", "l", "y", "s", "i", "s", ",", " ", "b">>,
    <<"R", "i", "s", "k", "s", ":", " ", "a">>,
    <<"*", "*", "O", "p", "p", "o", "r", "t", "u", "n", "i", "t", "i", "e", "s", ":", "*", "*", " ", "b">>,
    <<"A", "c", "t", "i", "o", "n", "a", "b", "l", "e", " ", "S", "u", "m", "m", "a", "r", "y", "\n", "b", "u", "y", "\n">>,
    <<"N", "e", "w", "s", " ", "S", "e", "n", "t", "i", "m", "e", "n", "t">>,
    <<"*", " ", "u", "p">> }

MarkerBlockSeqs == UNION {[1..n -> MarkerBlocks] : n \in 0..MaxMarkerBlocks}

MarkerReports == {Join(bs, <<NL>>) : bs \in MarkerBlockSeqs}

InitMarkers == InitWith(MarkerReports)

SpecMarkers == InitMarkers /\ [][Next]_vars

(***************************************************************************)
(* Several calls of parseFullReport, one after the other (each render of   *)
(* the Dashboard calls it again).                                          *)
(***************************************************************************)
MaxCalls == 3

CallReports ==
  { EmptyStr,
    <<"T", "e", "c", "h", "n", "i", "c", "a", "l", " ", "A", "n", "a", "l", "y", "s", "i", "s", "\n", "*", " ", "u", "p">>,
    <<"*", " ", "u", "p">>,
    <<"R", "i", "s", "k", "s", "/", "O", "p", "p", "o", "r", "t", "u", "n", "i", "t", "i", "e", "s", ":", " ", "a", ",", " ", "b">>,
    <<"R", "i", "s", "k", "s", ":", " ", "a", "\n">> }

InitCalls == InitWith(CallReports)

\* the next call, on any report: the locals of the call that returned are gone,
\* and what the model still holds of them is whatever that call left
CallAgain ==
  /\ pc = "done"
  /\ called
  /\ ncalls < MaxCalls
  /\ \E r \in CallReports : report' = r
  /\ pc' = "entry"
  /\ ncalls' = ncalls + 1
  /\ lines' = << >>
  /\ idx' = 0
  /\ cursorAt' = << >>
  /\ pushes' = [c \in Categories |-> 0]
  /\ appendedAt' = << >>
  /\ extracted' = NoExtraction
  /\ result' = << >>
  /\ UNCHANGED <<hasReport, called, currentSection, sections, returned>>
  /\ UNCHANGED uiVars

NextCalls == Next \/ CallAgain

SpecCalls == InitCalls /\ [][NextCalls]_vars

(***************************************************************************)
(* App, AuthCallback, Login and the Dashboard's logout.                     *)
(***************************************************************************)
InitApp ==
  /\ ParseInit({EmptyStr})
  /\ hasReport = FALSE
  /\ AppInit(Paths, SearchValues)
  /\ FormInit

\* the browser loads the document on a URL: the App is constructed again and
\* what the former document was waiting for is gone
LoadTo(path, s) ==
  /\ pathname' = path
  /\ search' = s
  /\ currentPage' = InitialPage(path)
  /\ effectPending' = (Rendered(InitialPage(path)) = "AuthCallback")
  /\ runs' = [r \in 1..Len(runs) |->
                IF runs[r].pc = "awaiting" THEN [runs[r] EXCEPT !.pc = "gone"] ELSE runs[r]]
  /\ starting' = 0
  /\ revoking' = 0

\* the user opens a URL of the application
LoadPage ==
  /\ \E path \in Paths, s \in SearchValues :
       /\ (path = "/authenticate") => Len(runs) < MaxRuns
       /\ LoadTo(path, s)
  /\ UNCHANGED <<oauthStarted, parseVars, formVars>>

\* the popstate listener
HandleRouteChange ==
  /\ ~effectPending
  /\ (pathname = "/authenticate" /\ currentPage # "authenticate") => Len(runs) < MaxRuns
  /\ IF pathname = "/authenticate"
     THEN /\ currentPage' = "authenticate"
          /\ effectPending' = (Rendered(currentPage) # "AuthCallback")
     ELSE UNCHANGED <<currentPage, effectPending>>
  /\ UNCHANGED <<pathname, search, runs, starting, revoking, oauthStarted, parseVars, formVars>>

\* the effect of AuthCallback, up to the await
AuthenticateToken ==
  /\ effectPending
  /\ effectPending' = FALSE
  /\ LET token == GetToken(search)
     IN IF TokenMissing(token)
        THEN /\ runs' = Append(runs, [token |-> token, pc |-> "done", authCalls |-> 0,
                                      onSuccess |-> 0, onError |-> 1, outcome |-> "none"])
             /\ currentPage' = OnErrorPage
        ELSE /\ runs' = Append(runs, [token |-> token, pc |-> "awaiting", authCalls |-> 1,
                                      onSuccess |-> 0, onError |-> 0, outcome |-> "pending"])
             /\ UNCHANGED currentPage
  /\ UNCHANGED <<pathname, search, starting, revoking, oauthStarted, parseVars, formVars>>

\* oauth.authenticate resolves: onSuccess()
AuthResolves ==
  /\ ~effectPending
  /\ \E r \in 1..Len(runs) :
       /\ runs[r].pc = "awaiting"
       /\ runs' = [runs EXCEPT ![r].pc = "done", ![r].outcome = "resolved", ![r].onSuccess = @ + 1]
  /\ currentPage' = OnSuccessPage
  /\ UNCHANGED <<pathname, search, effectPending, starting, revoking, oauthStarted, parseVars,
                 formVars>>

\* oauth.authenticate rejects: the catch block, onError()
AuthRejects ==
  /\ ~effectPending
  /\ \E r \in 1..Len(runs) :
       /\ runs[r].pc = "awaiting"
       /\ runs' = [runs EXCEPT ![r].pc = "done", ![r].outcome = "rejected", ![r].onError = @ + 1]
  /\ currentPage' = OnErrorPage
  /\ UNCHANGED <<pathname, search, effectPending, starting, revoking, oauthStarted, parseVars,
                 formVars>>

\* Login: the click on Continue with Google, up to the await
HandleGoogleLogin ==
  /\ ~effectPending
  /\ Rendered(currentPage) = "Login"
  /\ starting < MaxPending
  /\ starting' = starting + 1
  /\ oauthStarted' = TRUE
  /\ UNCHANGED <<pathname, search, currentPage, effectPending, runs, revoking, parseVars, formVars>>

\* oauth.google.start resolves: the browser goes to the provider, which
\* redirects it to login_redirect_url, with or without a token
StartResolves ==
  /\ ~effectPending
  /\ starting > 0
  /\ Len(runs) < MaxRuns
  /\ \E s \in SearchValues : LoadTo("/authenticate", s)
  /\ UNCHANGED <<oauthStarted, parseVars, formVars>>

\* oauth.google.start rejects: the catch block logs the error
StartRejects ==
  /\ ~effectPending
  /\ starting > 0
  /\ starting' = starting - 1
  /\ UNCHANGED <<pathname, search, currentPage, effectPending, runs, revoking, oauthStarted,
                 parseVars, formVars>>

\* Dashboard: the click on Logout, up to the await
HandleLogout ==
  /\ ~effectPending
  /\ Rendered(currentPage) = "Dashboard"
  /\ revoking < MaxPending
  /\ revoking' = revoking + 1
  /\ UNCHANGED <<pathname, search, currentPage, effectPending, runs, starting, oauthStarted,
                 parseVars, formVars>>

\* session.revoke resolves: onLogout()
RevokeResolves ==
  /\ ~effectPending
  /\ revoking > 0
  /\ revoking' = revoking - 1
  /\ currentPage' = OnLogoutPage
  /\ UNCHANGED <<pathname, search, effectPending, runs, starting, oauthStarted, parseVars,
                 formVars>>

\* session.revoke rejects: the catch block logs the error
RevokeRejects ==
  /\ ~effectPending
  /\ revoking > 0
  /\ revoking' = revoking - 1
  /\ UNCHANGED <<pathname, search, currentPage, effectPending, runs, starting, oauthStarted,
                 parseVars, formVars>>

NextApp ==
  \/ LoadPage
  \/ HandleRouteChange
  \/ AuthenticateToken
  \/ AuthResolves
  \/ AuthRejects
  \/ HandleGoogleLogin
  \/ StartResolves
  \/ StartRejects
  \/ HandleLogout
  \/ RevokeResolves
  \/ RevokeRejects

SpecApp == InitApp /\ [][NextApp]_vars

(***************************************************************************)
(* The StockAnalysis form.                                                  *)
(***************************************************************************)
InitForm ==
  /\ ParseInit({EmptyStr})
  /\ hasReport = FALSE
  /\ AppInit({"/"}, {""})
  /\ FormInit

\* onChange of the ticker input: setTicker(e.target.value.toUpperCase())
SetTicker ==
  /\ \E v \in TypedValues : ticker' = ToUpperCase(v)
  /\ UNCHANGED <<formReport, loading, error, calls, parseVars, appVars>>

\* the click on Generate Report: generateReport up to the await
GenerateReport ==
  /\ ~Disabled
  /\ Len(calls) < MaxRequests
  /\ loading' = TRUE
  /\ error' = Null
  /\ calls' = Append(calls, [ticker |-> ticker, before |-> formReport, outcome |-> "pending",
                             data |-> Null])
  /\ UNCHANGED <<ticker, formReport, parseVars, appVars>>

\* axios.post resolves: setReport(response.data), then the finally block
RequestSucceeds ==
  /\ \E i \in 1..Len(calls), data \in Responses :
       /\ calls[i].outcome = "pending"
       /\ formReport' = data
       /\ calls' = [calls EXCEPT ![i].outcome = "ok", ![i].data = data]
  /\ loading' = FALSE
  /\ UNCHANGED <<ticker, error, parseVars, appVars>>

RequestFailsKeepsLoading ==
  /\ \E i \in 1..Len(calls), detail \in Details :
       /\ calls[i].outcome = "pending"
       /\ error' = ErrorText(detail)
       /\ calls' = [calls EXCEPT ![i].outcome = "failed", ![i].data = detail]
  /\ UNCHANGED <<ticker, formReport, loading, parseVars, appVars>>

\* axios.post rejects: the catch block, then the finally block
RequestFails ==
  /\ \E i \in 1..Len(calls), detail \in Details :
       /\ calls[i].outcome = "pending"
       /\ error' = ErrorText(detail)
       /\ calls' = [calls EXCEPT ![i].outcome = "failed", ![i].data = detail]
  /\ loading' = FALSE
  /\ UNCHANGED <<ticker, formReport, parseVars, appVars>>

NextForm ==
  \/ SetTicker
  \/ GenerateReport
  \/ RequestSucceeds
  \/ RequestFails

SpecForm == InitForm /\ [][NextForm]_vars

TypeOK ==
  /\ pc \in {"idle", "render", "entry", "scan", "risks", "opps", "return", "done", "error"}
  /\ currentSection \in Categories \cup {NoSection}
  /\ idx \in 0..Len(lines)
  /\ pathname \in Paths
  /\ search \in SearchValues
  /\ currentPage \in {"login", "authenticate", "dashboard"}
  /\ effectPending \in BOOLEAN
  /\ Len(runs) <= MaxRuns
  /\ starting \in 0..MaxPending
  /\ revoking \in 0..MaxPending
  /\ ticker \in {ToUpperCase(v) : v \in TypedValues}
  /\ formReport \in Responses \cup {Null}
  /\ loading \in BOOLEAN
  /\ Len(calls) <= MaxRequests

(***************************************************************************)
(* Properties.                                                             *)
(***************************************************************************)
Range(seq) == {seq[i] : i \in 1..Len(seq)}

Returned == pc = "done" /\ called

\* the content of the section of category c in the returned sequence
ContentOf(res, c) ==
  IF \E i \in 1..Len(res) : res[i].type = c
  THEN res[CHOOSE i \in 1..Len(res) : res[i].type = c].content
  ELSE << >>

HasHeaderKeyword(low) ==
  \/ Includes(low, KwTechnical)
  \/ Includes(low, KwFundamental)
  \/ Includes(low, KwNews)
  \/ Includes(low, KwSocial)

DisplayRank(c) ==
  CASE c = "technical" -> 1
    [] c = "fundamental" -> 2
    [] c = "sentiment" -> 3
    [] c = "risks" -> 4
    [] c = "opportunities" -> 5

\* C1: the categories of the returned sections appear in the fixed order
\* technical, fundamental, sentiment, risks, opportunities, whatever the order
\* in the input; so no category appears twice and at most five are returned.
C1_FixedOrder ==
  pc = "done" =>
    /\ Len(result) <= 5
    /\ \A i \in 1..Len(result) : result[i].type \in Categories
    /\ \A i, j \in 1..Len(result) :
         i < j => DisplayRank(result[i].type) < DisplayRank(result[j].type)

\* a report whose first line is a risks/opportunities line and that later
\* fills technical: technical is returned first all the same
C1_Witness ==
  /\ Returned
  /\ Len(result) >= 3
  /\ result[1].type = "technical"
  /\ Includes(ToLowerCase(lines[1]), KwRisksOpps)

\* C2: a category is returned if and only if an entry was appended to it
\* during the call, and no returned section has an empty content.
C2_NonEmptyOnly ==
  Returned =>
    /\ \A c \in Categories :
         (\E i \in 1..Len(result) : result[i].type = c) <=> (pushes[c] > 0)
    /\ \A i \in 1..Len(result) : result[i].content # << >>

C2_Witness ==
  /\ Returned
  /\ \E c \in Categories : pushes[c] > 0
  /\ \E c \in Categories : pushes[c] = 0
  /\ Len(result) = Cardinality({c \in Categories : pushes[c] > 0})

\* the text of a bullet line, once the marker is stripped
BulletText(line) == Trim(Slice(line, Len(BulletMarker), Len(line)))

\* the i-th line as the scan sees it is a bullet with text, taken while a category is active
BulletUnderCategory(i) ==
  /\ StartsWith(CleanLine(lines[i]), BulletMarker)
  /\ BulletText(CleanLine(lines[i])) # EmptyStr
  /\ cursorAt[i] # NoSection

\* C3 as stated: EVERY bullet line scanned under an active category has its
\* trimmed text in the content of that category.
C3_EveryBulletKept ==
  Returned =>
    \A i \in 1..Len(lines) :
      BulletUnderCategory(i) =>
        BulletText(CleanLine(lines[i])) \in Range(ContentOf(result, cursorAt[i]))

\* C3 (amended): a bullet line that contains, ignoring case, no header keyword
\* and no `risks/opportunities`, scanned while category C is active, has its
\* trimmed text as an exact member of the content of C in the output.
C3_PlainBulletKept ==
  Returned =>
    \A i \in 1..Len(lines) :
      ( /\ BulletUnderCategory(i)
        /\ ~HasHeaderKeyword(ToLowerCase(CleanLine(lines[i])))
        /\ ~Includes(ToLowerCase(CleanLine(lines[i])), KwRisksOpps) ) =>
        BulletText(CleanLine(lines[i])) \in Range(ContentOf(result, cursorAt[i]))

C3_Witness ==
  /\ Returned
  /\ \E i \in 1..Len(lines) :
       /\ BulletUnderCategory(i)
       /\ ~HasHeaderKeyword(ToLowerCase(CleanLine(lines[i])))
       /\ cursorAt[i] = "sentiment"
       /\ BulletText(CleanLine(lines[i])) \in Range(ContentOf(result, "sentiment"))

\* C4 as stated: the output for a narrative equals the output for the
\* narrative with every `**` removed.
C4_OutputIgnoresBold ==
  Returned => result = Segment(StripBold(report))

\* C4 (amended): the line scan treats a line exactly as the same line with
\* every `**` removed: when the scan ends, the cursor and the buckets are
\* those the scan reaches on the narrative with the markers removed.
C4_ScanIgnoresBold ==
  (pc = "scan" /\ idx = Len(lines)) =>
    [cur |-> currentSection, secs |-> sections]
      = ScanLines([cur |-> InitialSection, secs |-> FreshSections],
                  Split(StripBold(report), <<NL>>))

C4_Witness ==
  /\ pc = "scan"
  /\ idx = Len(lines)
  /\ \E i \in 1..Len(lines) :
       /\ Includes(lines[i], Bold)
       /\ BulletUnderCategory(i)
       /\ BulletText(CleanLine(lines[i])) \in Range(sections[cursorAt[i]].content)
  /\ currentSection = "sentiment"

RisksOppsLabel == <<"R", "i", "s", "k", "s", "/", "O", "p", "p", "o", "r", "t", "u", "n", "i", "t", "i", "e", "s", ":">>

\* the narrative is the one line `Risks/Opportunities: R, O`
IsRisksOppsLine(rep) ==
  /\ StartsWith(rep, RisksOppsLabel)
  /\ LET rest == Slice(rep, Len(RisksOppsLabel), Len(rep))
         comma == IndexOf(rest, <<",">>, 0)
     IN /\ ~Includes(rest, <<":">>)
        /\ ~Includes(rest, <<NL>>)
        /\ comma # -1
        /\ IndexOf(rest, <<",">>, comma + 1) = -1
        /\ Trim(Slice(rest, 0, comma)) # EmptyStr
        /\ Trim(Slice(rest, comma + 1, Len(rest))) # EmptyStr

RisksOppsExpected(rep) ==
  LET rest == Slice(rep, Len(RisksOppsLabel), Len(rep))
      comma == IndexOf(rest, <<",">>, 0)
  IN << [content |-> <<Trim(Slice(rest, 0, comma))>>, type |-> "risks", title |-> "Risks"],
        [content |-> <<Trim(Slice(rest, comma + 1, Len(rest)))>>, type |-> "opportunities",
         title |-> "Opportunities"] >>

\* C5 as stated: the one-line narrative `Risks/Opportunities: R, O` yields
\* risks [R] then opportunities [O], for every R and O without colon, comma
\* or newline.
C5_RisksOppsLine ==
  (Returned /\ IsRisksOppsLine(report)) => result = RisksOppsExpected(report)

\* C5 (amended): the same, for R and O that contain no `**` and, ignoring
\* case, no header keyword.
C5_PlainRisksOppsLine ==
  ( /\ Returned
    /\ IsRisksOppsLine(report)
    /\ ~Includes(report, Bold)
    /\ ~HasHeaderKeyword(ToLowerCase(report)) ) => result = RisksOppsExpected(report)

C5_Witness ==
  /\ Returned
  /\ IsRisksOppsLine(report)
  /\ ~HasHeaderKeyword(ToLowerCase(report))
  /\ Len(result) = 2

\* line k holds `Actionable Summary`, lines k+1..m are non-blank and a double
\* newline follows line m
SummaryBlock(k, m) ==
  /\ k < m
  /\ m + 2 <= Len(lines)
  /\ Includes(lines[k], ActionableSummary)
  /\ \A j \in (k + 1)..m : Trim(lines[j]) # EmptyStr
  /\ lines[m + 1] = EmptyStr

NoSummaryMarker(l) == ~Includes(l, ActionableSummary)

SummaryExpected(k, m) ==
  Join(TrimAll(SelectSeq(SubSeq(lines, k + 1, m), NoSummaryMarker)), <<" ">>)

\* C6 as stated: for ANY `Actionable Summary` line followed by non-blank lines
\* and a double newline, sentiment holds those lines, trimmed and joined by a
\* space, as one entry.
C6_AnySummaryBlock ==
  Returned =>
    \A k, m \in 1..Len(lines) :
      SummaryBlock(k, m) => SummaryExpected(k, m) \in Range(ContentOf(result, "sentiment"))

\* C6 (amended): when the line of the FIRST occurrence of `Actionable Summary`
\* is followed by non-blank lines and a double newline, sentiment holds, as
\* one entry, those of the lines that do not contain `Actionable Summary`,
\* trimmed and joined by a space (when one such line is left).
C6_FirstSummaryBlock ==
  Returned =>
    \A k, m \in 1..Len(lines) :
      ( /\ SummaryBlock(k, m)
        /\ \A j \in 1..(k - 1) : ~Includes(lines[j], ActionableSummary)
        /\ SummaryExpected(k, m) # EmptyStr ) =>
        SummaryExpected(k, m) \in Range(ContentOf(result, "sentiment"))

C6_Witness ==
  /\ Returned
  /\ \E k, m \in 1..Len(lines) :
       /\ SummaryBlock(k, m)
       /\ \A j \in 1..(k - 1) : ~Includes(lines[j], ActionableSummary)
       /\ SummaryExpected(k, m) # EmptyStr
       /\ ContentOf(result, "sentiment") = <<SummaryExpected(k, m)>>

\* the category a header line names
HeaderCategory(l) ==
  LET low == ToLowerCase(CleanLine(l))
  IN CASE low = KwTechnical -> "technical"
       [] low = KwFundamental -> "fundamental"
       [] low = KwNews -> "sentiment"
       [] low = KwSocial -> "sentiment"
       [] OTHER -> NoSection

FixedTitle(c) ==
  CASE c = "technical" -> "Technical Analysis"
    [] c = "fundamental" -> "Fundamental Analysis"
    [] c = "sentiment" -> "Sentiment Analysis"
    [] c = "risks" -> "Risks"
    [] c = "opportunities" -> "Opportunities"

\* a bullet line `* T` whose text has no header keyword and no marker
PlainBulletLine(l) ==
  /\ StartsWith(l, BulletMarker)
  /\ LET t == Slice(l, Len(BulletMarker), Len(l))
     IN /\ t # EmptyStr
        /\ Trim(t) = t
        /\ ~HasHeaderKeyword(ToLowerCase(t))
        /\ ~Includes(ToLowerCase(t), KwRisksOpps)
        /\ ~Includes(t, Bold)
        /\ ~Includes(t, BulletMarker)
        /\ ~Includes(t, ActionableSummary)
        /\ ~Includes(t, RisksMarker)
        /\ ~Includes(t, OppsMarker)

\* the narrative is one header line followed by n >= 1 plain bullet lines
HeaderAndBullets ==
  /\ Len(lines) >= 2
  /\ HeaderCategory(lines[1]) # NoSection
  /\ \A i \in 2..Len(lines) : PlainBulletLine(lines[i])

Unstructured ==
  /\ \A i \in 1..Len(lines) :
       /\ ~HasHeaderKeyword(ToLowerCase(CleanLine(lines[i])))
       /\ ~Includes(ToLowerCase(CleanLine(lines[i])), KwRisksOpps)
  /\ ~Includes(report, ActionableSummary)
  /\ ~Includes(report, RisksMarker)
  /\ ~Includes(report, OppsMarker)

C9_EmptyReport ==
  /\ (Returned /\ report = EmptyStr) =>
       (result = << >> /\ lines = << >> /\ idx = 0 /\ cursorAt = << >>)
  /\ pc = "render" => (hasReport /\ report # EmptyStr)
  /\ (pc = "done" /\ ~called) => (result = << >> /\ (~hasReport \/ report = EmptyStr))

C9_Witness ==
  /\ Returned
  /\ hasReport
  /\ report = EmptyStr
  /\ result = << >>

\* C10: the title of every returned section is the fixed title of its
\* category, whatever the input text.
C10_FixedTitles ==
  pc = "done" => \A i \in 1..Len(result) : result[i].title = FixedTitle(result[i].type)

\* the header text `**News** **Sentiment**` does not become the title
C10_Witness ==
  /\ Returned
  /\ \E i \in 1..Len(lines) : Includes(lines[i], Bold) /\ HeaderCategory(lines[i]) = "sentiment"
  /\ \E i \in 1..Len(result) :
       result[i].type = "sentiment" /\ result[i].title = "Sentiment Analysis"

\* C11: parseFullReport is total: on every string, however malformed, no
\* iteration throws and every call that was entered goes on until it returns.
C11_Total ==
  /\ pc # "error"
  /\ (called /\ pc # "done") =>
       \/ pc \in {"entry", "risks", "opps", "return"}
       \/ (pc = "scan" /\ idx <= Len(lines))

\* a call returned on a report with a risks/opportunities line without colon
\* and a line made only of markers
C11_Witness ==
  /\ Returned
  /\ \E i \in 1..Len(lines) :
       /\ Includes(ToLowerCase(lines[i]), KwRisksOpps)
       /\ ~Includes(lines[i], <<":">>)
  /\ \E i \in 1..Len(lines) : lines[i] = Bold

\* C12: two calls on the same string, in any order and interleaved with calls
\* on other strings, return equal sequences: no state of a call is visible to
\* another.
C12_SameReportSameResult ==
  \A i, j \in 1..Len(returned) :
    returned[i].report = returned[j].report => returned[i].result = returned[j].result

\* the same report before and after a call on another report
C12_Witness ==
  /\ Len(returned) = 3
  /\ returned[1].report = returned[3].report
  /\ returned[2].report # returned[1].report
  /\ returned[1].result # << >>
  /\ returned[2].result # << >>

\* C13: every content entry of every returned section is a non-empty string
\* without leading or trailing white space, whichever rule appended it.
C13_EntriesTrimmed ==
  pc = "done" =>
    \A i \in 1..Len(result) :
      \A j \in 1..Len(result[i].content) :
        LET e == result[i].content[j]
        IN e # EmptyStr /\ ~IsSpace(e[1]) /\ ~IsSpace(e[Len(e)])

\* entries from the line scan and from the summary extraction, and an
\* extraction whose text was empty and appended nothing
C13_Witness ==
  /\ Returned
  /\ extracted.summary # << >>
  /\ \E i \in 1..Len(appendedAt) : appendedAt[i] # << >>
  /\ Includes(report, RisksMarker) \/ Includes(report, OppsMarker)

\* the cursor after the i-th iteration
CursorAfter(i) == IF i < Len(cursorAt) THEN cursorAt[i + 1] ELSE currentSection

\* the i-th line is handled by the risks/opportunities rule
RisksOppsClassified(i) ==
  /\ ~HasHeaderKeyword(ToLowerCase(CleanLine(lines[i])))
  /\ Includes(ToLowerCase(CleanLine(lines[i])), KwRisksOpps)

Entry(c, text) == IF text # EmptyStr THEN << [cat |-> c, text |-> text] >> ELSE << >>

\* what the claim expects of a risks/opportunities line: the whole remainder
\* after the first colon, split on commas
WholeRemainderEntries(line) ==
  LET rest == Slice(line, IndexOf(line, <<":">>, 0) + 1, Len(line))
      toks == Split(rest, <<",">>)
  IN Entry("risks", Trim(toks[1]))
       \o (IF Len(toks) > 1 THEN Entry("opportunities", Trim(toks[2])) ELSE << >>)

\* C14: for a risks/opportunities line the text split on commas is the whole
\* remainder of the line after the first colon, later colons included; its
\* first token goes to risks and its second to opportunities, when non-empty.
C14_WholeRemainder ==
  Returned =>
    \A i \in 1..Len(lines) :
      (RisksOppsClassified(i) /\ Includes(CleanLine(lines[i]), <<":">>)) =>
        appendedAt[i] = WholeRemainderEntries(CleanLine(lines[i]))

\* C15: classification is first-match-wins in the order technical,
\* fundamental, sentiment, risks/opportunities, bullet, ignoring letter case:
\* a line with the keywords of two rules is handled by the earlier rule only.
C15_FirstMatchWins ==
  Returned =>
    \A i \in 1..Len(lines) :
      LET line == CleanLine(lines[i])
          low == ToLowerCase(line)
          cats == {appendedAt[i][j].cat : j \in 1..Len(appendedAt[i])}
      IN line # EmptyStr =>
           IF Includes(low, KwTechnical)
             THEN CursorAfter(i) = "technical" /\ appendedAt[i] = << >>
           ELSE IF Includes(low, KwFundamental)
             THEN CursorAfter(i) = "fundamental" /\ appendedAt[i] = << >>
           ELSE IF Includes(low, KwNews) \/ Includes(low, KwSocial)
             THEN CursorAfter(i) = "sentiment" /\ appendedAt[i] = << >>
           ELSE IF Includes(low, KwRisksOpps)
             THEN CursorAfter(i) = cursorAt[i] /\ cats \subseteq {"risks", "opportunities"}
           ELSE IF StartsWith(line, BulletMarker) /\ cursorAt[i] # NoSection
             THEN CursorAfter(i) = cursorAt[i] /\ cats \subseteq {cursorAt[i]}
           ELSE CursorAfter(i) = cursorAt[i] /\ appendedAt[i] = << >>

\* a line with `fundamental analysis` before `TECHNICAL ANALYSIS` sets the
\* cursor to technical, and a line with a header keyword and
\* `risks/opportunities` performs no split
C15_Witness ==
  /\ Returned
  /\ \E i \in 1..Len(lines) :
       /\ Includes(lines[i], KwFundamental)
       /\ Includes(ToLowerCase(lines[i]), KwTechnical)
       /\ ~Includes(lines[i], KwTechnical)
       /\ cursorAt[i] = "sentiment"
       /\ CursorAfter(i) = "technical"
  /\ \E i \in 1..Len(lines) :
       /\ Includes(ToLowerCase(lines[i]), KwNews)
       /\ Includes(ToLowerCase(lines[i]), KwRisksOpps)
       /\ appendedAt[i] = << >>

\* the i-th line is handled by the bullet rule or by no rule
PlainLine(i) ==
  /\ ~HasHeaderKeyword(ToLowerCase(CleanLine(lines[i])))
  /\ ~Includes(ToLowerCase(CleanLine(lines[i])), KwRisksOpps)

\* C16: a risks/opportunities line leaves the cursor unchanged: the bullet
\* lines after it go to the category that was active before it, or are
\* dropped when none was, and never to risks or opportunities.
C16_CursorKept ==
  Returned =>
    /\ \A i \in 1..Len(lines) : RisksOppsClassified(i) => CursorAfter(i) = cursorAt[i]
    /\ \A i \in 1..(Len(lines) - 1) :
         (RisksOppsClassified(i) /\ PlainLine(i + 1)) =>
           \A j \in 1..Len(appendedAt[i + 1]) :
             /\ cursorAt[i] # NoSection
             /\ appendedAt[i + 1][j].cat = cursorAt[i]
             /\ appendedAt[i + 1][j].cat \notin {"risks", "opportunities"}

\* header, risks/opportunities line, bullet: the bullet goes to technical
C16_Witness ==
  /\ Returned
  /\ \E i \in 1..(Len(lines) - 1) :
       /\ RisksOppsClassified(i)
       /\ appendedAt[i] # << >>
       /\ cursorAt[i] = "technical"
       /\ PlainLine(i + 1)
       /\ Len(appendedAt[i + 1]) = 1
       /\ appendedAt[i + 1][1].cat = "technical"

\* C17: a line with a header keyword only changes the cursor: the scan
\* appends nothing for it, also when it starts with `* ` or has more text.
C17_HeaderAppendsNothing ==
  Returned =>
    \A i \in 1..Len(lines) :
      HasHeaderKeyword(ToLowerCase(CleanLine(lines[i]))) =>
        /\ appendedAt[i] = << >>
        /\ CursorAfter(i) \in {"technical", "fundamental", "sentiment"}

\* a header line that starts with the bullet marker, scanned under an active
\* category
C17_Witness ==
  /\ Returned
  /\ \E i \in 1..Len(lines) :
       /\ HasHeaderKeyword(ToLowerCase(CleanLine(lines[i])))
       /\ StartsWith(CleanLine(lines[i]), BulletMarker)
       /\ cursorAt[i] = "technical"
       /\ CursorAfter(i) = "sentiment"
       /\ appendedAt[i] = << >>

\* no terminator follows the first occurrence of the marker
Unterminated(marker, terminator) ==
  /\ Includes(report, marker)
  /\ IndexOf(report, terminator, IndexOf(report, marker, 0)) = -1

\* C18: an extraction whose terminator is missing appends nothing: the
\* summary without a double newline after the first `Actionable Summary`,
\* `Risks:` and `Opportunities:` without a newline after the first marker.
C18_MissingTerminator ==
  Returned =>
    /\ Unterminated(ActionableSummary, <<NL, NL>>) => extracted.summary = << >>
    /\ Unterminated(RisksMarker, <<NL>>) => extracted.risks = << >>
    /\ Unterminated(OppsMarker, <<NL>>) => extracted.opportunities = << >>

\* text follows `Risks:` up to the end of the narrative
C18_Witness ==
  /\ Returned
  /\ Unterminated(RisksMarker, <<NL>>)
  /\ Trim(Slice(report, IndexOf(report, RisksMarker, 0) + Len(RisksMarker), Len(report))) # EmptyStr
  /\ extracted.risks = << >>
  /\ ContentOf(result, "risks") = << >>

\* the text between the end of the first occurrence of the marker and the
\* next newline, trimmed, as the entries the extraction is to append
MarkedEntries(marker, c) ==
  LET start == IndexOf(report, marker, 0)
      end == IndexOf(report, <<NL>>, start)
  IN Entry(c, Trim(Slice(report, start + Len(marker), end)))

\* C19: with a newline after the first `Risks:` (resp. `Opportunities:`), the
\* text between the end of the marker and that newline, trimmed, is appended
\* as one entry to risks (resp. opportunities) if it is non-empty.
C19_MarkedExtraction ==
  Returned =>
    /\ (Includes(report, RisksMarker) /\ ~Unterminated(RisksMarker, <<NL>>)) =>
         extracted.risks = MarkedEntries(RisksMarker, "risks")
    /\ (Includes(report, OppsMarker) /\ ~Unterminated(OppsMarker, <<NL>>)) =>
         extracted.opportunities = MarkedEntries(OppsMarker, "opportunities")

C19_Witness ==
  /\ Returned
  /\ Len(extracted.risks) = 1
  /\ Len(extracted.opportunities) = 1
  /\ extracted.risks = MarkedEntries(RisksMarker, "risks")
  /\ extracted.opportunities = MarkedEntries(OppsMarker, "opportunities")

Count(x, seq) == Cardinality({i \in 1..Len(seq) : seq[i] = x})

\* line i is an inline `Risks/Opportunities: R, O` line and line k a separate
\* `Risks: R` line with the same R, terminated by a newline
InlineAndSeparate(i, k) ==
  /\ IsRisksOppsLine(lines[i])
  /\ StartsWith(lines[k], RisksMarker)
  /\ k < Len(lines)
  /\ Trim(Slice(lines[k], Len(RisksMarker), Len(lines[k]))) = RisksOppsExpected(lines[i])[1].content[1]

InlineHoldsFirstOpps(i) ==
  /\ IsRisksOppsLine(lines[i])
  /\ i < Len(lines)
  /\ \A j \in 1..(i - 1) : ~Includes(lines[j], OppsMarker)

\* the text of line i after the label, trimmed
InlineRemainder(i) == Trim(Slice(lines[i], Len(RisksOppsLabel), Len(lines[i])))

\* what C21 expects of line i: the scan appends R to risks and O to
\* opportunities, the `Opportunities:` extraction appends the remainder
\* `R, O`, the `Risks:` marker is not in the line, and risks holds R alone
\* when no other line names risks
InlineGetsRemainder(i) ==
  LET R == RisksOppsExpected(lines[i])[1].content[1]
      O == RisksOppsExpected(lines[i])[2].content[1]
  IN /\ appendedAt[i] = Entry("risks", R) \o Entry("opportunities", O)
     /\ extracted.opportunities = Entry("opportunities", InlineRemainder(i))
     /\ ~Includes(lines[i], RisksMarker)
     /\ (\A k \in (1..Len(lines)) \ {i} : ~Includes(ToLowerCase(lines[k]), <<"r", "i", "s", "k", "s">>)) =>
          /\ extracted.risks = << >>
          /\ ContentOf(result, "risks") = <<R>>

RECURSIVE Flatten(_)
Flatten(seqs) == IF seqs = << >> THEN << >> ELSE Head(seqs) \o Flatten(Tail(seqs))

Texts(entries) == [j \in 1..Len(entries) |-> entries[j].text]

\* the texts the line scan appended to category c, oldest first
ScanTexts(c) ==
  LET OfCategory(e) == e.cat = c
  IN Texts(SelectSeq(Flatten(appendedAt), OfCategory))

\* the entries the full-text extraction of category c appended
ExtractionOf(c) ==
  CASE c = "sentiment" -> extracted.summary
    [] c = "risks" -> extracted.risks
    [] c = "opportunities" -> extracted.opportunities
    [] OTHER -> << >>

\* the summary of the first occurrence of `Actionable Summary`: the text from
\* the marker to the first double newline after it, without the lines that
\* hold the marker or are blank, trimmed and joined by one space
FirstSummaryEntries ==
  LET first == IndexOf(report, ActionableSummary, 0)
      stop == IndexOf(report, <<NL, NL>>, first)
      kept == SelectSeq(Split(Slice(report, first, stop), <<NL>>), NoSummaryMarker)
      NonBlank(l) == Trim(l) # EmptyStr
  IN Entry("sentiment", Join(TrimAll(SelectSeq(kept, NonBlank)), <<" ">>))

\* the entry of the first occurrence of the marker, none when the marker or
\* its terminator is missing
FirstMarkedEntries(marker, c) ==
  IF Includes(report, marker) /\ ~Unterminated(marker, <<NL>>)
  THEN MarkedEntries(marker, c)
  ELSE << >>

\* the marker occurs again after its first occurrence
OccursTwice(marker) ==
  /\ Includes(report, marker)
  /\ IndexOf(report, marker, IndexOf(report, marker, 0) + 1) # -1

\* C22: each full-text extraction (Actionable Summary, `Risks:`,
\* `Opportunities:`) appends at most one entry per call, the one of the first
\* occurrence of its marker, and appends it after every entry the line scan
\* appended to the same category: the returned content of a category is the
\* scan's entries followed by the extraction's, which is the last entry.
C22_ExtractionLast ==
  Returned =>
    /\ \A c \in Categories :
         /\ Len(ExtractionOf(c)) <= 1
         /\ \A j \in 1..Len(ExtractionOf(c)) : ExtractionOf(c)[j].cat = c
         /\ ContentOf(result, c) = ScanTexts(c) \o Texts(ExtractionOf(c))
         /\ ExtractionOf(c) # << >> =>
              ContentOf(result, c)[Len(ContentOf(result, c))] = ExtractionOf(c)[1].text
    /\ extracted.summary =
         (IF Includes(report, ActionableSummary) /\ ~Unterminated(ActionableSummary, <<NL, NL>>)
          THEN FirstSummaryEntries ELSE << >>)
    /\ extracted.risks = FirstMarkedEntries(RisksMarker, "risks")
    /\ extracted.opportunities = FirstMarkedEntries(OppsMarker, "opportunities")

\* `Risks:` occurs twice, the scan and the extraction both append to risks,
\* and the extraction's single entry is the last one
C22_Witness ==
  /\ Returned
  /\ OccursTwice(RisksMarker)
  /\ ScanTexts("risks") # << >>
  /\ Len(extracted.risks) = 1
  /\ ContentOf(result, "risks") = ScanTexts("risks") \o <<extracted.risks[1].text>>

\* run r of authenticateToken is one the claim allows: it has invoked at most
\* one of onSuccess and onError, exactly one once it has ended; without a
\* token it has ended in onError and never called authenticate; rejected, it
\* has invoked onError; and it has invoked onSuccess only after its one call
\* of authenticate, made with a token, resolved
RunAsClaimed(r) ==
  LET run == runs[r]
  IN /\ run.onSuccess + run.onError <= 1
     /\ run.pc = "done" => run.onSuccess + run.onError = 1
     /\ TokenMissing(run.token) => (run.pc = "done" /\ run.authCalls = 0 /\ run.onError = 1)
     /\ run.outcome = "rejected" => (run.onError = 1 /\ run.onSuccess = 0)
     /\ run.onSuccess = 1 =>
          (run.outcome = "resolved" /\ ~TokenMissing(run.token) /\ run.authCalls = 1)

EntersDashboard == currentPage # "dashboard" /\ currentPage' = "dashboard"

\* in this step a call of authenticate made with a token resolves
ResolvesNow ==
  /\ Len(runs') = Len(runs)
  /\ \E r \in 1..Len(runs) :
       /\ runs[r].pc = "awaiting"
       /\ runs[r].authCalls = 1
       /\ ~TokenMissing(runs[r].token)
       /\ runs'[r].outcome = "resolved"

\* C23: the dashboard page is entered only in a step in which a call of
\* oauth.authenticate made with a token of the URL resolves; every run of the
\* callback without a token calls onError and never authenticate, a rejected
\* authenticate calls onError, a run that has ended has invoked exactly one
\* of onSuccess/onError; and the click in Login starts the OAuth redirect
\* and leaves the page as it is (onLogin, which sets dashboard, is never
\* invoked).
C23_DashboardAfterAuthenticate ==
  /\ [](\A r \in 1..Len(runs) : RunAsClaimed(r))
  /\ [](currentPage = "dashboard" =>
          \E r \in 1..Len(runs) : runs[r].outcome = "resolved" /\ runs[r].onSuccess = 1)
  /\ [][EntersDashboard => ResolvesNow]_vars
  /\ [][starting' = starting + 1 => (oauthStarted' /\ currentPage' = currentPage)]_vars

\* the dashboard after a run without a token, a run whose authenticate was
\* rejected and a run whose authenticate resolved, the redirect having been
\* started from Login
C23_Witness ==
  /\ currentPage = "dashboard"
  /\ oauthStarted
  /\ \E r \in 1..Len(runs) : runs[r].outcome = "resolved" /\ runs[r].onSuccess = 1
  /\ \E r \in 1..Len(runs) : runs[r].outcome = "rejected" /\ runs[r].onError = 1
  /\ \E r \in 1..Len(runs) :
       TokenMissing(runs[r].token) /\ runs[r].authCalls = 0 /\ runs[r].onError = 1

Pending(i) == calls[i].outcome = "pending"

\* in this step generateReport is called
CallsNow == Len(calls') = Len(calls) + 1

\* in this step the request of call i settles as `how`
SettlesNow(i, how) == Pending(i) /\ Len(calls') = Len(calls) /\ calls'[i].outcome = how

\* C24: every generateReport call sets loading to true and error to null
\* before the request and they stay so while it is pending; when the request
\* settles loading is false again; a failed request sets error and leaves the
\* stored report as it was, a successful one stores the response and leaves
\* error null; and the Generate button is disabled while loading is true or
\* the ticker is empty, so that no call starts then.
C24_GenerateReport ==
  /\ [][CallsNow => (~loading /\ ticker # EmptyStr /\ loading' /\ error' = Null)]_vars
  /\ [](\A i \in 1..Len(calls) : Pending(i) => (loading /\ error = Null /\ Disabled))
  /\ []((loading \/ ticker = EmptyStr) => Disabled)
  /\ [][\A i \in 1..Len(calls) :
          SettlesNow(i, "failed") =>
            (~loading' /\ error' # Null /\ error' = ErrorText(calls'[i].data)
               /\ formReport' = formReport)]_vars
  /\ [][\A i \in 1..Len(calls) :
          SettlesNow(i, "ok") =>
            (~loading' /\ formReport' = calls'[i].data /\ error' = Null)]_vars
  /\ []((\A i \in 1..Len(calls) : ~Pending(i)) => ~loading)

\* a request that succeeded and a later one that failed have settled: the
\* form is not loading, shows the error and still holds the stored report
C24_Witness ==
  /\ ~loading
  /\ ticker # EmptyStr
  /\ \E i, k \in 1..Len(calls) :
       /\ i < k
       /\ calls[i].outcome = "ok"
       /\ calls[k].outcome = "failed"
       /\ calls[k].before = calls[i].data
       /\ formReport = calls[i].data
       /\ error = ErrorText(calls[k].data)

====
